---------------------------- MODULE Spec2Model ----------------------------
(* A model of the RTX Remix downloader (src/main.py): the build-type       *)
(* prompt, the release and artifact fetchers, the recursive tree merge,    *)
(* and the stages of main().  The filesystem is a function from paths      *)
(* (sequences of names) to nodes; a name is a sequence of characters, so   *)
(* that substring and suffix tests are computed and not assumed.           *)
EXTENDS Integers, Sequences, FiniteSets, TLC

VARIABLES pc, fs, argv, prompts, build_type, BUILD_NAMES, temp_dir,
          created, released, fetched, merged, unpacked, remix0, downloads,
          in, out

vars == <<pc, fs, argv, prompts, build_type, BUILD_NAMES, temp_dir,
          created, released, fetched, merged, unpacked, remix0, downloads,
          in, out>>

-----------------------------------------------------------------------------
(* Bounds of the model.                                                    *)

\* The largest number of entries (files and directories) of a generated tree.
MaxNodes == 2

\* The largest number of assets of a release the platform lists.
MaxAssets == 2

\* The largest number of workflow runs the platform lists.
MaxWorkflowRuns == 2

\* The largest number of artifacts of a workflow run the platform lists.
MaxArtifacts == 3

\* The largest number of lines typed at the build-type prompt.
MaxInputs == 3

-----------------------------------------------------------------------------
(* Strings as sequences of characters.                                     *)

Str_symbols == <<"s", "y", "m", "b", "o", "l", "s">>
Str_release == <<"r", "e", "l", "e", "a", "s", "e">>
Str_debug == <<"d", "e", "b", "u", "g">>
Str_debugoptimized == Str_debug \o <<"o", "p", "t", "i", "m", "i", "z", "e", "d">>
Str_pdb == <<".", "p", "d", "b">>
Str_CRC == <<"C", "R", "C", ".", "t", "x", "t">>
Str_readme == <<"r", "e", "a", "d", "m", "e">>
Str_artifacts_readme == <<"a", "r", "t", "i", "f", "a", "c", "t", "s", "_">> \o Str_readme \o <<".", "t", "x", "t">>
Str_trex == <<".", "t", "r", "e", "x">>
Str_remix == <<"r", "e", "m", "i", "x">>
Str_build_names == <<"b", "u", "i", "l", "d", "_", "n", "a", "m", "e", "s", ".", "t", "x", "t">>
Str_main == <<"m", "a", "i", "n">>
Str_success == <<"s", "u", "c", "c", "e", "s", "s">>
Str_failure == <<"f", "a", "i", "l", "u", "r", "e">>
Str_dev == <<"d", "e", "v">>
Str_zip == <<".", "z", "i", "p">>

\* Python's `sub in s` on strings.
Contains(sub, s) ==
    \E i \in 0..(Len(s) - Len(sub)) : SubSeq(s, i + 1, i + Len(sub)) = sub

\* fnmatch of the pattern "*" + suffix, as rglob("*.pdb") applies it to a name.
EndsWith(s, suffix) ==
    /\ Len(s) >= Len(suffix)
    /\ SubSeq(s, Len(s) - Len(suffix) + 1, Len(s)) = suffix

-----------------------------------------------------------------------------
(* The filesystem: a function from the existing paths to their nodes.      *)

DirNode == [kind |-> "dir", data |-> <<>>]
FileNode(d) == [kind |-> "file", data |-> d]

EmptyFs == [p \in {} |-> DirNode]

exists(f, p) == p \in DOMAIN f
is_dir(f, p) == p = <<>> \/ (p \in DOMAIN f /\ f[p].kind = "dir")
is_file(f, p) == p \in DOMAIN f /\ f[p].kind = "file"

parent(p) == SubSeq(p, 1, Len(p) - 1)
basename(p) == p[Len(p)]

IsPrefix(p, q) == Len(p) <= Len(q) /\ SubSeq(q, 1, Len(p)) = p

\* The paths strictly below p.
Below(f, p) == {q \in DOMAIN f : Len(q) > Len(p) /\ IsPrefix(p, q)}

\* The names of the entries of directory p.
ChildNames(f, p) == {q[Len(p) + 1] : q \in {r \in Below(f, p) : Len(r) = Len(p) + 1}}

Put(f, p, node) == [q \in DOMAIN f \cup {p} |-> IF q = p THEN node ELSE f[q]]
Remove(f, p) == [q \in DOMAIN f \ {p} |-> f[q]]

\* The subtree below p, with paths relative to p.
Subtree(f, p) ==
    [r \in {SubSeq(q, Len(p) + 1, Len(q)) : q \in Below(f, p)} |-> f[p \o r]]

\* f with tree t (relative paths) planted below the existing directory p.
Plant(f, p, t) ==
    [q \in DOMAIN f \cup {p \o r : r \in DOMAIN t} |->
        IF q \in DOMAIN f THEN f[q] ELSE t[SubSeq(q, Len(p) + 1, Len(q))]]

\* f without p and everything below it (shutil.rmtree).
Prune(f, p) == [q \in {r \in DOMAIN f : ~IsPrefix(p, r)} |-> f[q]]

Ok(f) == [fs |-> f, err |-> "ok"]
Fail(f, e) == [fs |-> f, err |-> e]

\* shutil.move(src, dst) of a regular file: into dst when dst is a directory
\* (refusing an existing entry there), else onto dst, replacing a file.
shutil_move(f, src, dst) ==
    LET real_dst == IF is_dir(f, dst) THEN dst \o <<basename(src)>> ELSE dst
    IN  IF is_dir(f, dst) /\ exists(f, real_dst)
        THEN Fail(f, "shutil.Error")
        ELSE IF ~is_dir(f, parent(real_dst))
        THEN Fail(f, "FileNotFoundError")
        ELSE Ok(Put(Remove(f, src), real_dst, f[src]))

\* Path.mkdir(exist_ok=True), parents=False.
mkdir(f, p) ==
    IF exists(f, p)
    THEN IF is_dir(f, p) THEN Ok(f) ELSE Fail(f, "FileExistsError")
    ELSE IF ~is_dir(f, parent(p))
    THEN Fail(f, "FileNotFoundError")
    ELSE Ok(Put(f, p, DirNode))

\* Path.rmdir(): only an empty directory.
rmdir(f, p) ==
    IF ~(exists(f, p) /\ is_dir(f, p)) THEN Fail(f, "NotADirectoryError")
    ELSE IF ChildNames(f, p) # {} THEN Fail(f, "OSError")
    ELSE Ok(Remove(f, p))

\* open(p, "w") and the writes: creates or truncates a file.
write_file(f, p, d) ==
    IF exists(f, p) /\ is_dir(f, p) THEN Fail(f, "IsADirectoryError")
    ELSE IF ~is_dir(f, parent(p)) THEN Fail(f, "FileNotFoundError")
    ELSE Ok(Put(f, p, FileNode(d)))

\* Path.iterdir(): os.listdir's snapshot, in the order ord gives the names
\* (the order of a directory listing is arbitrary).
RECURSIVE listdir_in(_, _)
listdir_in(names, ord) ==
    IF ord = <<>> THEN <<>>
    ELSE IF Head(ord) \in names
    THEN <<Head(ord)>> \o listdir_in(names, Tail(ord))
    ELSE listdir_in(names, Tail(ord))

iterdir(f, p, ord) == listdir_in(ChildNames(f, p), ord)

RECURSIVE replace_recursively(_, _, _, _)
RECURSIVE replace_children(_, _, _, _, _)

\* One pass of the loop body of replace_recursively for each listed child.
replace_children(f, root_path, move_to, kids, ord) ==
    IF kids = <<>> THEN Ok(f)
    ELSE LET child == root_path \o <<Head(kids)>>
             target == move_to \o <<Head(kids)>>
             step == IF is_file(f, child)
                     THEN shutil_move(f, child, target)
                     ELSE IF exists(f, child) /\ is_dir(f, child)
                     THEN LET m == mkdir(f, target)
                          IN  IF m.err # "ok" THEN m
                              ELSE LET r == replace_recursively(m.fs, child, target, ord)
                                   IN  IF r.err # "ok" THEN r ELSE rmdir(r.fs, child)
                     ELSE Ok(f)
         IN  IF step.err # "ok" THEN step
             ELSE replace_children(step.fs, root_path, move_to, Tail(kids), ord)

replace_recursively(f, root_path, move_to, ord) ==
    IF ~(exists(f, root_path) /\ is_dir(f, root_path))
    THEN Fail(f, "NotADirectoryError")
    ELSE replace_children(f, root_path, move_to, iterdir(f, root_path, ord), ord)


\* fetch_release's last step: the single unpacked wrapper directory is merged
\* into the ephemeral directory and removed.
flatten(f, path, ord) ==
    LET listing == iterdir(f, path, ord)
    IN  IF listing = <<>> THEN Fail(f, "StopIteration")
        ELSE LET child_path == path \o <<Head(listing)>>
                 r == replace_recursively(f, child_path, path, ord)
             IN  IF r.err # "ok" THEN r ELSE rmdir(r.fs, child_path)

-----------------------------------------------------------------------------
(* Generated inputs: trees, listing orders.                                *)

\* The positions where tree t can take one more entry.
Slots(t, names) ==
    {q \o <<n>> : q \in {<<>>} \cup {d \in DOMAIN t : t[d].kind = "dir"}, n \in names}
        \ DOMAIN t

\* Every tree of at most n entries over names, its files holding data d.
RECURSIVE Trees(_, _, _)
Trees(names, d, n) ==
    IF n = 0 THEN {EmptyFs}
    ELSE LET prev == Trees(names, d, n - 1)
         IN  prev \cup UNION {UNION {{Put(t, p, DirNode), Put(t, p, FileNode(d))} :
                                        p \in Slots(t, names)} : t \in prev}

\* Every order of a set of names.
RECURSIVE Orders(_)
Orders(names) ==
    IF names = {} THEN {<<>>}
    ELSE UNION {{<<n>> \o s : s \in Orders(names \ {n})} : n \in names}

Name_a == <<"a">>
Name_b == <<"b">>
MergeNames == {Name_a, Name_b}
MergeOrders == Orders(MergeNames)
DataS == <<<<"S">>>>
DataD == <<<<"D">>>>
SourceTrees == Trees(MergeNames, DataS, MaxNodes)
DestTrees == Trees(MergeNames, DataD, MaxNodes)

SRC == <<<<"S">>>>
DST == <<<<"D">>>>
WRAPPER == Name_a

At(stage, i) == [stage |-> stage, i |-> i, at |-> "none"]
FailedAt(stage, i) == [stage |-> "failed", i |-> i, at |-> stage]

\* The variables a specification of one function leaves alone.
Idle ==
    /\ argv = <<>> /\ prompts = 0 /\ build_type = <<>> /\ BUILD_NAMES = <<>>
    /\ temp_dir = <<>> /\ created = {} /\ released = <<>> /\ fetched = {}
    /\ merged = {} /\ unpacked = <<>> /\ remix0 = <<>> /\ downloads = <<>>

IdleVars == <<argv, prompts, build_type, BUILD_NAMES, temp_dir, created, released,
              fetched, merged, unpacked, remix0, downloads>>

-----------------------------------------------------------------------------
(* The tree merge on its own: replace_recursively and the flatten step on  *)
(* every pair of small trees.                                              *)

MergeInit ==
    /\ Idle
    /\ pc = At("call", 0)
    /\ out = "none"
    /\ \/ /\ in \in [op : {"merge"}, S : SourceTrees, D : DestTrees]
          /\ fs = Plant(Plant(Put(Put(EmptyFs, SRC, DirNode), DST, DirNode),
                              SRC, in.S), DST, in.D)
       \/ /\ in \in [op : {"flatten"}, S : SourceTrees, D : {EmptyFs}]
          /\ fs = Plant(Put(Put(EmptyFs, DST, DirNode), DST \o <<WRAPPER>>, DirNode),
                        DST \o <<WRAPPER>>, in.S)

MergeCall ==
    /\ pc = At("call", 0) /\ in.op = "merge"
    /\ \E ord \in MergeOrders :
          LET r == replace_recursively(fs, SRC, DST, ord)
          IN  fs' = r.fs /\ out' = r.err
    /\ pc' = At("returned", 0)
    /\ UNCHANGED <<in, IdleVars>>

FlattenCall ==
    /\ pc = At("call", 0) /\ in.op = "flatten"
    /\ \E ord \in MergeOrders :
          LET r == flatten(fs, DST, ord)
          IN  fs' = r.fs /\ out' = r.err
    /\ pc' = At("returned", 0)
    /\ UNCHANGED <<in, IdleVars>>

MergeNext == MergeCall \/ FlattenCall

SpecMerge == MergeInit /\ [][MergeNext]_vars

Files(t) == {p \in DOMAIN t : t[p].kind = "file"}
Dirs(t) == {p \in DOMAIN t : t[p].kind = "dir"}

\* C3: after replace_recursively(S, D), for every S and D, the call has
\* completed, every file of S is at its path in D with S's content, every
\* directory of S exists in D, every file of D at a path not in S is
\* unchanged, and S is empty.
C3_MergeAnyTrees ==
    (pc = At("returned", 0) /\ in.op = "merge") =>
        /\ out = "ok"
        /\ \A p \in Files(in.S) : is_file(fs, DST \o p) /\ fs[DST \o p] = in.S[p]
        /\ \A p \in Dirs(in.S) : exists(fs, DST \o p) /\ is_dir(fs, DST \o p)
        /\ \A p \in Files(in.D) \ DOMAIN in.S :
              is_file(fs, DST \o p) /\ fs[DST \o p] = in.D[p]
        /\ Below(fs, SRC) = {}

\* C6: after the flatten step on a payload with one wrapper directory, the
\* step has completed and the ephemeral directory holds exactly the
\* wrapper's original contents, the wrapper itself gone.
C6_FlattenAnyWrapper ==
    (pc = At("returned", 0) /\ in.op = "flatten") =>
        /\ out = "ok"
        /\ Subtree(fs, DST) = in.S

\* The same two statements restricted to inputs without a clash of names.
TypeClash(S, D) ==
    \E p \in DOMAIN S \cap DOMAIN D : S[p].kind # D[p].kind

MergeNoClashOk ==
    (pc = At("returned", 0) /\ in.op = "merge" /\ ~TypeClash(in.S, in.D)) =>
        /\ out = "ok"
        /\ \A p \in Files(in.S) : is_file(fs, DST \o p) /\ fs[DST \o p] = in.S[p]
        /\ \A p \in Dirs(in.S) : exists(fs, DST \o p) /\ is_dir(fs, DST \o p)
        /\ \A p \in Files(in.D) \ DOMAIN in.S :
              is_file(fs, DST \o p) /\ fs[DST \o p] = in.D[p]
        /\ Below(fs, SRC) = {}

FlattenNoClashOk ==
    (pc = At("returned", 0) /\ in.op = "flatten" /\ <<WRAPPER>> \notin DOMAIN in.S) =>
        /\ out = "ok"
        /\ Subtree(fs, DST) = in.S


-----------------------------------------------------------------------------
(* The fetchers.                                                           *)

BUILD_TYPES ==
    [c \in {"1", "2", "3"} |->
        CASE c = "1" -> Str_release
          [] c = "2" -> Str_debugoptimized
          [] c = "3" -> Str_debug]

BuildTypes == {BUILD_TYPES[c] : c \in DOMAIN BUILD_TYPES}

REPOSITORIES ==
    << [repo_type |-> "release", move_to |-> <<>>, main_directory |-> TRUE,
        artifact_branch |-> <<>>],
       [repo_type |-> "artifact", move_to |-> <<Str_trex>>, main_directory |-> FALSE,
        artifact_branch |-> Str_main],
       [repo_type |-> "artifact", move_to |-> <<>>, main_directory |-> FALSE,
        artifact_branch |-> Str_main] >>

Repos == DOMAIN REPOSITORIES

\* The result of a fetch: the filesystem, how it ended, the downloads it
\* requested and BUILD_NAMES as it left it.
Fetched(f, e, req, names) == [fs |-> f, err |-> e, requested |-> req, names |-> names]

\* The same loop without its test of the asset's name.
RECURSIVE select_asset_unfiltered(_, _, _)
select_asset_unfiltered(assets, i, bound) ==
    IF i > Len(assets) THEN bound
    ELSE select_asset_unfiltered(assets, i + 1, <<[name |-> assets[i], id |-> <<0, i>>]>>)

\* The loop over json["assets"]: the download URL bound last, if any.
RECURSIVE select_asset(_, _, _)
select_asset(assets, i, bound) ==
    IF i > Len(assets) THEN bound
    ELSE IF ~Contains(Str_symbols, assets[i])
    THEN select_asset(assets, i + 1, <<[name |-> assets[i], id |-> <<0, i>>]>>)
    ELSE select_asset(assets, i + 1, bound)

\* fetch_release(repo, temp_dir): json is the latest release (its name and
\* assets), fault the step of the exchange that fails, payload what the
\* archive unpacks to.
fetch_release(f, path, json, fault, payload, ord) ==
    IF fault = "get" THEN Fetched(f, "ConnectError", <<>>, <<>>)
    ELSE LET download_url == select_asset(json.assets, 1, <<>>)
             zip == path \o <<json.name \o Str_zip>>
             opened == Put(f, zip, FileNode(<<>>))
         IN  IF download_url = <<>>
             THEN Fetched(opened, "UnboundLocalError", <<>>, <<>>)
             ELSE IF fault = "stream"
             THEN Fetched(opened, "ReadTimeout", download_url, <<>>)
             ELSE IF fault = "zip"
             THEN Fetched(opened, "BadZipFile", download_url, <<>>)
             ELSE LET r == flatten(Remove(Plant(opened, path, payload), zip), path, ord)
                  IN  Fetched(r.fs, r.err, download_url, <<>>)

\* The loop over json["workflow_runs"]: the index of the first run on the
\* branch that succeeded, 0 when the loop ends without a break.
RECURSIVE select_run(_, _, _)
select_run(workflow_runs, i, artifact_branch) ==
    IF i > Len(workflow_runs) THEN 0
    ELSE IF /\ workflow_runs[i].head_branch = artifact_branch
            /\ workflow_runs[i].conclusion = Str_success
    THEN i
    ELSE select_run(workflow_runs, i + 1, artifact_branch)

\* The loop over json["artifacts"]: the first artifact whose name contains
\* the build type, <<>> when the loop ends without a break.
RECURSIVE select_artifact(_, _, _, _)
select_artifact(artifacts, i, run, bt) ==
    IF i > Len(artifacts) THEN <<>>
    ELSE IF Contains(bt, artifacts[i])
    THEN <<[name |-> artifacts[i], id |-> <<run, i>>]>>
    ELSE select_artifact(artifacts, i + 1, run, bt)

\* fetch_artifact(repo, temp_dir): json is the list of workflow runs and, for
\* the run whose artifacts_url is queried, its artifacts.
fetch_artifact(f, path, artifact_branch, bt, names, json, fault, payload) ==
    IF fault = "get" THEN Fetched(f, "ConnectError", <<>>, names)
    ELSE LET run == select_run(json.workflow_runs, 1, artifact_branch)
         IN  IF run = 0 THEN Fetched(f, "KeyError", <<>>, names)
             ELSE LET artifact == select_artifact(json.artifacts, 1, run, bt)
                  IN  IF artifact = <<>>
                      THEN Fetched(f, "UnboundLocalError", <<>>, names)
                      ELSE LET zip == path \o <<artifact[1].name \o Str_zip>>
                               opened == Put(f, zip, FileNode(<<>>))
                               appended == Append(names, artifact[1].name)
                           IN  IF fault = "stream"
                               THEN Fetched(opened, "ReadTimeout", artifact, appended)
                               ELSE IF fault = "zip"
                               THEN Fetched(opened, "BadZipFile", artifact, appended)
                               ELSE Fetched(Remove(Plant(opened, path, payload), zip),
                                            "ok", artifact, appended)

-----------------------------------------------------------------------------
(* The fetchers on their own, on every small listing.                      *)

SeqsUpTo(S, n) == UNION {[1..k -> S] : k \in 0..n}

Asset_pkg == <<"r", "t", "x">>
Asset_alt == <<"a", "l", "t">>
Asset_sym == <<"r", "t", "x", "-">> \o Str_symbols
AssetNames == {Asset_pkg, Asset_alt, Asset_sym}

ArtifactName(bt) == <<"x", "-">> \o bt
ArtifactNames == {ArtifactName(bt) : bt \in BuildTypes}

WorkflowRuns == [head_branch : {Str_main, Str_dev}, conclusion : {Str_success, Str_failure}]

Faults == {"none", "get", "stream", "zip"}

ReleaseName == <<"v", "1">>
DataP == <<<<"P">>>>
TMP == <<<<"t", "m", "p">>>>

\* A release archive: a wrapper directory holding one file.
SamplePayload ==
    Put(Put(EmptyFs, <<Name_b>>, DirNode), <<Name_b, Name_a>>, FileNode(DataP))

FetchInputs ==
    [kind : {"release"}, assets : SeqsUpTo(AssetNames, MaxAssets), runs : {<<>>},
     arts : {<<>>}, bt : {<<>>}, fault : Faults]
    \cup
    [kind : {"artifact"}, assets : {<<>>}, runs : SeqsUpTo(WorkflowRuns, MaxWorkflowRuns),
     arts : SeqsUpTo(ArtifactNames, MaxArtifacts), bt : BuildTypes, fault : Faults]

FetchInit ==
    /\ Idle
    /\ pc = At("call", 0)
    /\ out = "none"
    /\ in \in FetchInputs
    /\ fs = Put(EmptyFs, TMP, DirNode)

FetchReleaseCall ==
    /\ pc = At("call", 0) /\ in.kind = "release"
    /\ \E ord \in MergeOrders :
          LET r == fetch_release(fs, TMP, [name |-> ReleaseName, assets |-> in.assets],
                                 in.fault, SamplePayload, ord)
          IN  fs' = r.fs /\ out' = [err |-> r.err, requested |-> r.requested, names |-> r.names]
    /\ pc' = At("returned", 0)
    /\ UNCHANGED <<in, IdleVars>>

FetchArtifactCall ==
    /\ pc = At("call", 0) /\ in.kind = "artifact"
    /\ LET r == fetch_artifact(fs, TMP, Str_main, in.bt, <<>>,
                               [workflow_runs |-> in.runs, artifacts |-> in.arts],
                               in.fault, SamplePayload)
       IN  fs' = r.fs /\ out' = [err |-> r.err, requested |-> r.requested, names |-> r.names]
    /\ pc' = At("returned", 0)
    /\ UNCHANGED <<in, IdleVars>>

FetchNext == FetchReleaseCall \/ FetchArtifactCall

SpecFetch == FetchInit /\ [][FetchNext]_vars


\* C7: a fetch requests no candidate that fails its criterion and fails,
\* requesting nothing, when none qualifies: no asset named "symbols" is
\* requested, and none at all when every asset is; an artifact comes from the
\* first run on the branch that succeeded and carries the build type, and
\* none is requested without such a run or such an artifact.
C7_SelectionCriteria ==
    (pc = At("returned", 0)) =>
        IF in.kind = "release"
        THEN /\ \A k \in DOMAIN out.requested :
                   ~Contains(Str_symbols, out.requested[k].name)
             /\ (\A i \in DOMAIN in.assets : Contains(Str_symbols, in.assets[i]))
                   => (out.err # "ok" /\ out.requested = <<>>)
        ELSE LET Matching == {i \in DOMAIN in.runs :
                                 /\ in.runs[i].head_branch = Str_main
                                 /\ in.runs[i].conclusion = Str_success}
             IN  /\ \A k \in DOMAIN out.requested :
                       /\ Matching # {}
                       /\ \A i \in Matching : out.requested[k].id[1] <= i
                       /\ out.requested[k].id[1] \in Matching
                       /\ Contains(in.bt, out.requested[k].name)
                 /\ Matching = {} => (out.err # "ok" /\ out.requested = <<>>)
                 /\ (\A j \in DOMAIN in.arts : ~Contains(in.bt, in.arts[j]))
                       => (out.err # "ok" /\ out.requested = <<>>)

\* An artifact fetch that skipped a failed run and took the later one's artifact.
C7_Witness ==
    /\ pc = At("returned", 0) /\ in.kind = "artifact"
    /\ Len(in.runs) = 2 /\ in.runs[1].conclusion = Str_failure
    /\ out.err = "ok" /\ Len(out.requested) = 1 /\ out.requested[1].id[1] = 2

\* C10: with one artifact per build type listed in any order, the artifact
\* downloaded and recorded is the one built for the requested type.
C10_ExactBuildType ==
    (/\ pc = At("returned", 0) /\ in.kind = "artifact" /\ in.fault = "none"
     /\ \E i \in DOMAIN in.runs :
           in.runs[i].head_branch = Str_main /\ in.runs[i].conclusion = Str_success
     /\ Len(in.arts) = Cardinality(ArtifactNames)
     /\ {in.arts[j] : j \in DOMAIN in.arts} = ArtifactNames)
    => /\ Len(out.requested) = 1
       /\ out.requested[1].name = ArtifactName(in.bt)
       /\ out.names = <<ArtifactName(in.bt)>>

-----------------------------------------------------------------------------
(* Start-up of the module: the build type.                                 *)

\* get_build_type(): reads lines until one is a key of BUILD_TYPES.
RECURSIVE get_build_type(_, _)
get_build_type(stdin, reads) ==
    IF stdin = <<>> THEN [err |-> "EOFError", type |-> <<>>, reads |-> reads + 1]
    ELSE IF Head(stdin) \in DOMAIN BUILD_TYPES
    THEN [err |-> "ok", type |-> BUILD_TYPES[Head(stdin)], reads |-> reads + 1]
    ELSE get_build_type(Tail(stdin), reads + 1)

ArgsInit ==
    /\ pc = At("call", 0)
    /\ argv \in {<<>>} \cup {<<bt>> : bt \in BuildTypes}
    /\ in \in SeqsUpTo({"1", "2", "3", "4"}, MaxInputs)
    /\ prompts = 0 /\ build_type = <<>> /\ BUILD_NAMES = <<>>
    /\ temp_dir = <<>> /\ created = {} /\ released = <<>> /\ fetched = {}
    /\ merged = {} /\ unpacked = <<>> /\ remix0 = <<>> /\ downloads = <<>>
    /\ out = "none" /\ fs = EmptyFs

\* Lines 17-58: the parser is built and never applied to the command line;
\* args.build_type is what get_build_type() returns.
ModuleInit ==
    /\ pc = At("call", 0)
    /\ LET r == get_build_type(in, 0)
       IN  /\ build_type' = r.type
           /\ prompts' = r.reads
           /\ pc' = IF r.err = "ok" THEN At("main", 0) ELSE FailedAt("init", 0)
    /\ UNCHANGED <<fs, argv, BUILD_NAMES, temp_dir, created, released, fetched,
                   merged, unpacked, remix0, downloads, in, out>>

SpecArgs == ArgsInit /\ [][ModuleInit]_vars

\* C9: with the build-type flag on the command line no prompt is issued and
\* the build type is the flag's value.
C9_FlagDecides ==
    (pc.stage # "call" /\ argv # <<>>) =>
        /\ prompts = 0
        /\ pc.stage = "main" => build_type = argv[1]

-----------------------------------------------------------------------------
(* main(): the stages of one run, and runs repeated over the same remix/.  *)

Name_w == <<"w">>
Name_pdb == <<"x">> \o Str_pdb
DataT == <<<<"T">>>>
DataB == <<<<"B">>>>

TmpNames == << <<"T", "1">>, <<"T", "2">>, <<"T", "3">> >>
TmpPath(i) == <<TmpNames[i]>>
REMIX == <<Str_remix>>

\* A tree given as a sequence of <<path, node>> pairs, parents first.
RECURSIVE TreeOf(_)
TreeOf(entries) ==
    IF entries = <<>> THEN EmptyFs
    ELSE Put(TreeOf(SubSeq(entries, 1, Len(entries) - 1)),
             entries[Len(entries)][1], entries[Len(entries)][2])

\* What the release archive unpacks to: a wrapper directory around the tree.
ReleasePayloads ==
    { TreeOf(<< <<<<Name_w>>, DirNode>>,
                <<<<Name_w, Str_trex>>, DirNode>>,
                <<<<Name_w, Name_a>>, FileNode(DataP)>> >>),
      TreeOf(<< <<<<Name_w>>, DirNode>>,
                <<<<Name_w, Name_a>>, FileNode(DataP)>> >>),
      TreeOf(<< <<<<Name_w>>, DirNode>>,
                <<<<Name_w, Str_trex>>, DirNode>>,
                <<<<Name_w, Name_pdb>>, FileNode(DataP)>> >>) }

\* What the artifact of the repository moved to .trex unpacks to.
TrexPayloads ==
    { TreeOf(<< <<<<Name_a>>, FileNode(DataT)>> >>),
      TreeOf(<< <<<<Name_a>>, FileNode(DataT)>>,
                <<<<Name_pdb>>, FileNode(DataT)>> >>),
      TreeOf(<< <<<<Name_a>>, DirNode>>,
                <<<<Name_a, Str_CRC>>, FileNode(DataT)>> >>) }

\* What the artifact of the repository merged at the root unpacks to.
RootPayloads ==
    { TreeOf(<< <<<<Name_a>>, FileNode(DataB)>> >>),
      TreeOf(<< <<<<Str_artifacts_readme>>, FileNode(DataB)>> >>),
      TreeOf(<< <<<<Name_pdb>>, DirNode>> >>),
      TreeOf(<< <<<<Name_a>>, DirNode>> >>) }

Payloads(i) ==
    CASE i = 1 -> ReleasePayloads
      [] i = 2 -> TrexPayloads
      [] i = 3 -> RootPayloads

\* One listing for each way a selection can end.
AssetSelection(assets) ==
    LET download_url == select_asset(assets, 1, <<>>)
    IN  IF download_url = <<>> THEN <<>> ELSE download_url[1].name

ReleaseListings ==
    LET All == SeqsUpTo(AssetNames, MaxAssets)
    IN  {CHOOSE a \in All : AssetSelection(a) = k : k \in {AssetSelection(a) : a \in All}}

\* What a run of main() keeps of the selection: whether a run was found and
\* the name of the artifact taken from it.
ArtifactSelection(json, bt) ==
    LET run == select_run(json.workflow_runs, 1, Str_main)
        artifact == select_artifact(json.artifacts, 1, run, bt)
    IN  <<run # 0, IF run = 0 \/ artifact = <<>> THEN <<>> ELSE artifact[1].name>>

ArtifactListings ==
    LET All == [workflow_runs : SeqsUpTo(WorkflowRuns, MaxWorkflowRuns),
                artifacts : SeqsUpTo(ArtifactNames, MaxArtifacts)]
    IN  [bt \in BuildTypes |->
            {CHOOSE j \in All : ArtifactSelection(j, bt) = k :
                k \in {ArtifactSelection(j, bt) : j \in All}}]

\* The listing orders of the names in use below directory p.
OrdersOf(f, p) == Orders({basename(q) : q \in Below(f, p)})

RemixState(f) ==
    [present |-> exists(f, REMIX), tree |-> Subtree(f, REMIX)]

NoTemp == [i \in Repos |-> <<>>]

StartOfRun(f) ==
    /\ pc = At("fetch", 1)
    /\ fs = f
    /\ argv = <<>> /\ prompts = 1
    /\ build_type \in BuildTypes
    /\ BUILD_NAMES = <<>>
    /\ temp_dir = NoTemp
    /\ created = {}
    /\ released = [i \in Repos |-> 0]
    /\ fetched = {} /\ merged = {}
    /\ unpacked = [i \in Repos |-> EmptyFs]
    /\ remix0 = RemixState(f)
    /\ downloads = <<>>
    /\ in = <<>> /\ out = "none"

\* main() is entered with a build type chosen and remix/ absent or empty.
Init ==
    \E f \in {EmptyFs, Put(EmptyFs, REMIX, DirNode)} : StartOfRun(f)

\* Where the run goes after the fetch of repository i ended with err: an
\* exception leaves main().
after_fetch_ignoring_errors(i, err) ==
    IF i < Len(REPOSITORIES) THEN At("fetch", i + 1) ELSE At("merge", 2)

after_fetch(i, err) ==
    IF err # "ok" THEN FailedAt("fetch", i)
    ELSE IF i < Len(REPOSITORIES) THEN At("fetch", i + 1)
    ELSE At("merge", 2)

\* The effect of one iteration of the fetch loop whose fetch returned r.
FetchEffect(i, r) ==
    /\ fs' = r.fs
    /\ created' = created \cup {i}
    /\ BUILD_NAMES' = IF REPOSITORIES[i].repo_type = "artifact" THEN r.names ELSE BUILD_NAMES
    /\ downloads' = downloads \o [k \in DOMAIN r.requested |->
                                     [repo |-> i, name |-> r.requested[k].name]]
    /\ temp_dir' = IF r.err = "ok" THEN [temp_dir EXCEPT ![i] = TmpPath(i)] ELSE temp_dir
    /\ fetched' = IF r.err = "ok" THEN fetched \cup {i} ELSE fetched
    /\ unpacked' = IF r.err = "ok"
                   THEN [unpacked EXCEPT ![i] = Subtree(r.fs, TmpPath(i))]
                   ELSE unpacked
    /\ pc' = after_fetch(i, r.err)
    /\ UNCHANGED <<argv, prompts, build_type, released, merged, remix0, in, out>>

\* Lines 225-228: a release repository.
FetchRelease ==
    /\ pc.stage = "fetch" /\ REPOSITORIES[pc.i].repo_type = "release"
    /\ \E assets \in ReleaseListings, fault \in Faults, payload \in Payloads(pc.i) :
          LET made == Put(fs, TmpPath(pc.i), DirNode)
          IN  \E ord \in OrdersOf(Plant(made, TmpPath(pc.i), payload), TmpPath(pc.i)) :
                 FetchEffect(pc.i, fetch_release(made, TmpPath(pc.i),
                                                 [name |-> ReleaseName, assets |-> assets],
                                                 fault, payload, ord))

\* Lines 229-232: an artifact repository.
FetchArtifact ==
    /\ pc.stage = "fetch" /\ REPOSITORIES[pc.i].repo_type = "artifact"
    /\ \E json \in ArtifactListings[build_type], fault \in Faults,
          payload \in Payloads(pc.i) :
          FetchEffect(pc.i, fetch_artifact(Put(fs, TmpPath(pc.i), DirNode), TmpPath(pc.i),
                                           REPOSITORIES[pc.i].artifact_branch, build_type,
                                           BUILD_NAMES, json, fault, payload))

\* Lines 234-240: the directory of the first repository marked main.
main_directory ==
    temp_dir[CHOOSE i \in Repos :
                /\ REPOSITORIES[i].main_directory
                /\ \A j \in Repos : REPOSITORIES[j].main_directory => i <= j]

\* Lines 245-253: one secondary repository is merged into the main directory.
MergeRepo ==
    /\ pc.stage = "merge"
    /\ \E ord \in OrdersOf(fs, temp_dir[pc.i]) :
          LET r == replace_recursively(fs, temp_dir[pc.i],
                                       main_directory \o REPOSITORIES[pc.i].move_to, ord)
          IN  /\ fs' = r.fs
              /\ pc' = IF r.err # "ok" THEN FailedAt("merge", pc.i)
                       ELSE IF pc.i < Len(REPOSITORIES) THEN At("merge", pc.i + 1)
                       ELSE At("cleanup", 0)
    /\ merged' = merged \cup {pc.i}
    /\ UNCHANGED <<argv, prompts, build_type, BUILD_NAMES, temp_dir, created, released,
                   fetched, unpacked, remix0, downloads, in, out>>

\* The three patterns of lines 259-264.
is_debug_file_pdb_only(name) == EndsWith(name, Str_pdb)

is_debug_file(name) ==
    \/ EndsWith(name, Str_pdb)
    \/ name = Str_CRC
    \/ name = Str_artifacts_readme

\* rglob(pattern) with unlink() on every match: a matching directory makes
\* unlink() raise, after any of the matching files were removed (the order
\* of the walk is arbitrary, so any subset of them may be gone by then).
Matches(f, root) == {q \in Below(f, root) : is_debug_file(basename(q))}

RemoveAll(f, gone) == [q \in DOMAIN f \ gone |-> f[q]]

\* Lines 255-264: the debugging files are deleted.
Cleanup ==
    /\ pc = At("cleanup", 0)
    /\ LET found == Matches(fs, main_directory)
           files == {q \in found : is_file(fs, q)}
       IN  IF found = files
           THEN fs' = RemoveAll(fs, files) /\ pc' = At("relocate", 0)
           ELSE \E gone \in SUBSET files :
                   fs' = RemoveAll(fs, gone) /\ pc' = FailedAt("cleanup", 0)
    /\ UNCHANGED <<argv, prompts, build_type, BUILD_NAMES, temp_dir, created, released,
                   fetched, merged, unpacked, remix0, downloads, in, out>>

\* Lines 266-271: the main directory's contents are moved to remix/.
Relocate ==
    /\ pc = At("relocate", 0)
    /\ LET m == mkdir(fs, REMIX)
       IN  IF m.err # "ok"
           THEN fs' = m.fs /\ pc' = FailedAt("relocate", 0)
           ELSE \E ord \in OrdersOf(fs, main_directory) :
                   LET r == replace_recursively(m.fs, main_directory, REMIX, ord)
                   IN  /\ fs' = r.fs
                       /\ pc' = IF r.err # "ok" THEN FailedAt("relocate", 0)
                                ELSE At("manifest", 0)
    /\ UNCHANGED <<argv, prompts, build_type, BUILD_NAMES, temp_dir, created, released,
                   fetched, merged, unpacked, remix0, downloads, in, out>>

\* The lines written by the loop of lines 280-281.
manifest_lines_but_last(names) == SubSeq(names, 1, Len(names) - 1)

manifest_lines(names) == names

\* Lines 278-281: build_names.txt is written.
WriteManifest ==
    /\ pc = At("manifest", 0)
    /\ LET w == write_file(fs, REMIX \o <<Str_build_names>>, manifest_lines(BUILD_NAMES))
       IN  /\ fs' = w.fs
           /\ pc' = IF w.err # "ok" THEN FailedAt("manifest", 0) ELSE At("release", 0)
    /\ UNCHANGED <<argv, prompts, build_type, BUILD_NAMES, temp_dir, created, released,
                   fetched, merged, unpacked, remix0, downloads, in, out>>

RECURSIVE PruneAll(_, _)
PruneAll(f, paths) ==
    IF paths = <<>> THEN f ELSE PruneAll(Prune(f, Head(paths)), Tail(paths))

\* Lines 283-287: cleanup() of every repository's temporary directory.
ReleaseTemp ==
    /\ pc = At("release", 0)
    /\ fs' = PruneAll(fs, temp_dir)
    /\ released' = [i \in Repos |-> released[i] + 1]
    /\ pc' = At("done", 0)
    /\ UNCHANGED <<argv, prompts, build_type, BUILD_NAMES, temp_dir, created,
                   fetched, merged, unpacked, remix0, downloads, in, out>>

\* The program is started again: a new process, new temporary directories,
\* the remix/ the last run left.
NextRun ==
    /\ pc.stage \in {"done", "failed"}
    /\ LET kept == [q \in {r \in DOMAIN fs : IsPrefix(REMIX, r)} |-> fs[q]]
       IN  /\ pc' = At("fetch", 1)
           /\ fs' = kept
           /\ build_type' \in BuildTypes
           /\ BUILD_NAMES' = <<>>
           /\ temp_dir' = NoTemp
           /\ created' = {}
           /\ released' = [i \in Repos |-> 0]
           /\ fetched' = {} /\ merged' = {}
           /\ unpacked' = [i \in Repos |-> EmptyFs]
           /\ remix0' = RemixState(kept)
           /\ downloads' = <<>>
    /\ UNCHANGED <<argv, prompts, in, out>>

Next ==
    \/ FetchRelease
    \/ FetchArtifact
    \/ MergeRepo
    \/ Cleanup
    \/ Relocate
    \/ WriteManifest
    \/ ReleaseTemp
    \/ NextRun

Spec == Init /\ [][Next]_vars

-----------------------------------------------------------------------------
(* The claims about a run of main().                                       *)

\* C1: no merge step is taken and remix/ is not written before every
\* repository has been fetched; a run whose fetch failed has ended as failed
\* and left remix/ as it was.
C1_FetchAllBeforeMerge ==
    /\ (merged # {} \/ RemixState(fs) # remix0) => fetched = Repos
    /\ pc.stage \notin {"fetch", "failed"} => fetched = Repos
    /\ (pc.stage = "failed" /\ pc.at = "fetch") =>
          /\ pc.i \notin fetched
          /\ merged = {}
          /\ RemixState(fs) = remix0

\* The third fetch failed after two succeeded, over a remix/ an earlier run filled.
C1_Witness ==
    /\ pc = FailedAt("fetch", 3)
    /\ fetched = {1, 2}
    /\ remix0.present /\ DOMAIN remix0.tree # {}
    /\ RemixState(fs) = remix0

C4_OutputLayout ==
    fetched = Repos =>
        /\ pc.stage # "failed"
        /\ pc.stage = "done" =>
              /\ \A p \in Files(unpacked[1]) : is_file(fs, REMIX \o p)
              /\ \A p \in Files(unpacked[2]) :
                    /\ is_file(fs, REMIX \o <<Str_trex>> \o p)
                    /\ fs[REMIX \o <<Str_trex>> \o p] = unpacked[2][p]
              /\ \A p \in Files(unpacked[3]) :
                    /\ is_file(fs, REMIX \o p)
                    /\ fs[REMIX \o p] = unpacked[3][p]

\* The names the cleanup is to remove, read off the claim.
DebugName(name) ==
    \/ EndsWith(name, Str_pdb)
    \/ name = Str_CRC
    \/ name = Str_artifacts_readme

\* C5: once the cleanup and the relocation have completed, remix/ holds no
\* file named *.pdb, CRC.txt or artifacts_readme.txt at any depth.
C5_NoDebugFiles ==
    (pc.stage \in {"manifest", "release", "done"}
        \/ (pc.stage = "failed" /\ pc.at = "manifest")) =>
        \A p \in Below(fs, REMIX) : is_file(fs, p) => ~DebugName(basename(p))

\* The relocation completed over a remix/ an earlier run filled, with a
\* debugging file among what was fetched.
C5_Witness ==
    /\ pc = At("manifest", 0)
    /\ remix0.present /\ DOMAIN remix0.tree # {}
    /\ \E i \in Repos : \E p \in Files(unpacked[i]) : basename(p) = Str_CRC
    /\ \E i \in Repos : \E p \in Files(unpacked[i]) : EndsWith(basename(p), Str_pdb)

ArtifactRepos == {i \in Repos : REPOSITORIES[i].repo_type = "artifact"}

ArtifactDownloads == SelectSeq(downloads, LAMBDA d : d.repo \in ArtifactRepos)

\* C8: at the end of a successful run build_names.txt holds one line for
\* each artifact repository, in the order fetched, each the name of the
\* artifact downloaded for it, and nothing else.
C8_Manifest ==
    pc = At("done", 0) =>
        LET m == REMIX \o <<Str_build_names>>
        IN  /\ is_file(fs, m)
            /\ fs[m].data = [k \in DOMAIN ArtifactDownloads |-> ArtifactDownloads[k].name]
            /\ Len(ArtifactDownloads) = Cardinality(ArtifactRepos)
            /\ \A j, k \in DOMAIN ArtifactDownloads :
                  j < k => ArtifactDownloads[j].repo < ArtifactDownloads[k].repo

\* A successful run whose two artifacts have different names.
C8_Witness ==
    /\ pc = At("done", 0)
    /\ Len(BUILD_NAMES) = 2
    /\ BUILD_NAMES[1] # BUILD_NAMES[2]
    /\ fs[REMIX \o <<Str_build_names>>].data = BUILD_NAMES

=============================================================================
